---- MODULE Spec2Model ----
(***************************************************************************)
(* A model of QA_CHECKBOT.py: the knowledge-base loader, the checklist     *)
(* generator, the chunked sender MessageSender.send_long_message, the      *)
(* handlers of AdvancedChecklistBot and their wiring in main().            *)
(*                                                                         *)
(* Strings.  A Python str is modelled as a sequence of atoms.  An atom     *)
(* [c, n] is a run of n characters none of which is a line feed, named by  *)
(* c; the line feed is the atom NL.  len(), split('\n') and '\n'.join()    *)
(* only look at the line feeds and at the lengths, so they are computed    *)
(* on atoms exactly as Python computes them on characters.  Non-ASCII      *)
(* text of the source is named in ASCII (the atom "BULLET" is the two      *)
(* characters of the bullet prefix, and so on).                            *)
(***************************************************************************)
EXTENDS Naturals, Sequences, FiniteSets, TLC

VARIABLES
    source,           \* what KnowledgeBaseLoader.load finds at 'checklists.json'
    load_result,      \* how KnowledgeBaseLoader.load ended
    knowledge_base,   \* self.knowledge_base
    limit,            \* constants.MessageLimit.MAX_TEXT_LENGTH as line 103 reads it
    update,           \* the update being handled
    handler,          \* the coroutine that main() dispatched the update to
    pc,               \* where that coroutine stands
    text,             \* send_long_message: the text argument
    lines,            \* send_long_message: lines
    i,                \* send_long_message: index of the line the for loop is at
    current_chunk,    \* send_long_message: current_chunk
    current_length,   \* send_long_message: current_length
    reply_markup,     \* send_long_message: reply_markup
    arg_reply_markup, \* send_long_message: reply_markup as the caller passed it
    sent,             \* the reply_text calls issued for this update, in order
    error,            \* the exception that left a coroutine last ("None": none)
    intent,           \* the response the handler chose (the branch taken)
    suspended         \* the frame of the other handler task, waiting at an await

vars == <<source, load_result, knowledge_base, limit, update, handler, pc, text, lines,
          i, current_chunk, current_length, reply_markup, arg_reply_markup, sent,
          error, intent, suspended>>

slm_vars == <<text, lines, i, current_chunk, current_length, reply_markup,
              arg_reply_markup>>

bot_vars == <<source, load_result, knowledge_base, limit, update, handler, suspended>>

(***************************************************************************)
(* Bounds of the model.                                                    *)
(***************************************************************************)
MaxTextLen == 5
MaxLimit == 4

(***************************************************************************)
(* Strings.                                                                *)
(***************************************************************************)
At(c, n) == [c |-> c, n |-> n]

NL == At("\n", 1)

A == At("a", 1)

B == At("b", 1)

\* len(s), summed over the two halves of s
RECURSIVE StrLen(_)
StrLen(s) ==
    IF s = <<>> THEN 0
    ELSE IF Len(s) = 1 THEN s[1].n
    ELSE LET h == Len(s) \div 2
         IN StrLen(SubSeq(s, 1, h)) + StrLen(SubSeq(s, h + 1, Len(s)))

RECURSIVE SeqsUpTo(_, _)
SeqsUpTo(S, n) ==
    IF n = 0 THEN {<<>>}
    ELSE LET shorter == SeqsUpTo(S, n - 1)
         IN shorter \cup {Append(s, x) : s \in {t \in shorter : Len(t) = n - 1}, x \in S}

\* str.split('\n'): the pieces between the line feeds; always at least one piece.
\* Piece j runs from after line feed j - 1 (or the start) to before line feed j
\* (or the end).
split_nl(s) ==
    LET feeds == {k \in 1..Len(s) : s[k] = NL}
        feed(j) == IF j = 0 THEN 0
                   ELSE IF j = Cardinality(feeds) + 1 THEN Len(s) + 1
                   ELSE CHOOSE k \in feeds : Cardinality({q \in feeds : q < k}) = j - 1
    IN [j \in 1..(Cardinality(feeds) + 1) |-> SubSeq(s, feed(j - 1) + 1, feed(j) - 1)]

\* '\n'.join(chunk)
RECURSIVE join_nl(_)
join_nl(chunk) ==
    IF chunk = <<>> THEN <<>>
    ELSE IF Len(chunk) = 1 THEN chunk[1]
    ELSE LET h == Len(chunk) \div 2
         IN join_nl(SubSeq(chunk, 1, h)) \o <<NL>> \o join_nl(SubSeq(chunk, h + 1, Len(chunk)))

(***************************************************************************)
(* MessageSender.send_long_message.  The coroutine is cut at its awaits:   *)
(* one action runs from one await (or the call) to the next.               *)
(***************************************************************************)
Markups == {"None", "keyboard"}

\* line 101: line_length = len(line) + 1
line_length_without_separator(line) == StrLen(line)

line_length(line) == StrLen(line) + 1

\* line 103: current_length + line_length > MAX_TEXT_LENGTH
exceeds_or_reaches(cur, len, max) == cur + len >= max

exceeds(cur, len, max) == cur + len > max

\* line 107: reply_markup = None
markup_kept_after_flush(rm) == rm

markup_after_flush(rm) == "None"

\* u.message.reply_text(t, reply_markup=rm), up to the await: the call is issued
\* (and joins the log of calls) when u.message is a message; on None the
\* attribute access raises. `first`: this is the first statement run for the
\* update u, so the log of the previous update's calls is dropped.
reply_text(u, first, t, rm, await_pc, raised_pc) ==
    IF u.kind = "message"
    THEN /\ sent' = Append(IF first THEN <<>> ELSE sent, [text |-> t, reply_markup |-> rm])
         /\ pc' = await_pc
         /\ error' = IF first THEN "None" ELSE error
    ELSE /\ sent' = (IF first THEN <<>> ELSE sent)
         /\ pc' = raised_pc
         /\ error' = "AttributeError"

\* lines 96-98, as the state a call of send_long_message(update, t, rm) starts in
call_send_long_message(t, rm) ==
    /\ text' = t
    /\ lines' = split_nl(t)
    /\ i' = 1
    /\ current_chunk' = <<>>
    /\ current_length' = 0
    /\ reply_markup' = rm
    /\ arg_reply_markup' = rm
    /\ pc' = "slm_loop"

\* lines 100-110: one iteration of the for loop, up to the await of line 104
SLM_LineNotAwaited ==
    /\ pc = "slm_loop"
    /\ i <= Len(lines)
    /\ IF exceeds(current_length, line_length(lines[i]), limit)
       THEN /\ sent' = Append(sent, [text |-> join_nl(current_chunk),
                                     reply_markup |-> reply_markup])
            /\ current_chunk' = <<lines[i]>>
            /\ current_length' = line_length(lines[i])
            /\ reply_markup' = markup_after_flush(reply_markup)
            /\ i' = i + 1
            /\ UNCHANGED <<text, lines, arg_reply_markup, pc, error>>
       ELSE /\ current_chunk' = Append(current_chunk, lines[i])
            /\ current_length' = current_length + line_length(lines[i])
            /\ i' = i + 1
            /\ UNCHANGED <<text, lines, reply_markup, arg_reply_markup, pc, sent, error>>
    /\ UNCHANGED intent
    /\ UNCHANGED bot_vars

SLM_Line ==
    /\ pc = "slm_loop"
    /\ i <= Len(lines)
    /\ IF exceeds(current_length, line_length(lines[i]), limit)
       THEN /\ reply_text(update, FALSE, join_nl(current_chunk), reply_markup,
                          "slm_await_flush", "raised")
            /\ UNCHANGED slm_vars
       ELSE /\ current_chunk' = Append(current_chunk, lines[i])
            /\ current_length' = current_length + line_length(lines[i])
            /\ i' = i + 1
            /\ UNCHANGED <<text, lines, reply_markup, arg_reply_markup, pc, sent, error>>
    /\ UNCHANGED intent
    /\ UNCHANGED bot_vars

\* lines 104-107: the await of line 104 returns
SLM_FlushReturns ==
    /\ pc = "slm_await_flush"
    /\ current_chunk' = <<lines[i]>>
    /\ current_length' = line_length(lines[i])
    /\ reply_markup' = markup_after_flush(reply_markup)
    /\ i' = i + 1
    /\ pc' = "slm_loop"
    /\ UNCHANGED <<text, lines, arg_reply_markup, sent, error>>
    /\ UNCHANGED intent
    /\ UNCHANGED bot_vars

\* lines 112-113: after the loop, up to the await of line 113
SLM_Final ==
    /\ pc = "slm_loop"
    /\ i > Len(lines)
    /\ IF current_chunk # <<>>
       THEN reply_text(update, FALSE, join_nl(current_chunk), reply_markup,
                       "slm_await_final", "raised")
       ELSE pc' = "returned" /\ UNCHANGED <<sent, error>>
    /\ UNCHANGED slm_vars
    /\ UNCHANGED intent
    /\ UNCHANGED bot_vars

\* line 113: the await returns and so does send_long_message
SLM_FinalReturns ==
    /\ pc = "slm_await_final"
    /\ pc' = "returned"
    /\ UNCHANGED <<sent, error>>
    /\ UNCHANGED slm_vars
    /\ UNCHANGED intent
    /\ UNCHANGED bot_vars

\* an awaited reply_text of a handler raises (the transport failed): nothing
\* in lines 95-179 catches it, so it leaves the handler
ReplyRaisesAndLoopGoesOn ==
    /\ pc \in {"slm_await_flush", "slm_await_final", "await_reply"}
    /\ pc' = IF pc = "slm_await_flush" THEN "slm_loop" ELSE "raised"
    /\ error' = "TelegramError"
    /\ UNCHANGED sent
    /\ UNCHANGED slm_vars
    /\ UNCHANGED intent
    /\ UNCHANGED bot_vars

ReplyRaises ==
    /\ pc \in {"slm_await_flush", "slm_await_final", "await_reply"}
    /\ pc' = "raised"
    /\ error' = "TelegramError"
    /\ UNCHANGED sent
    /\ UNCHANGED slm_vars
    /\ UNCHANGED intent
    /\ UNCHANGED bot_vars

(***************************************************************************)
(* send_long_message alone: one call, on any text and any limit.           *)
(***************************************************************************)
Texts == SeqsUpTo({A, B, NL}, MaxTextLen)

NoKnowledgeBase == [k \in {} |-> <<>>]

MessageUpdate(t) == [kind |-> "message", text |-> t]

NoUpdate == [kind |-> "None", text |-> <<>>]

\* the locals of a handler task that has not been given an update yet
IdleFrame ==
    [update |-> NoUpdate, handler |-> "none", pc |-> "idle", text |-> <<>>,
     lines |-> <<>>, i |-> 1, current_chunk |-> <<>>, current_length |-> 0,
     reply_markup |-> "None", arg_reply_markup |-> "None", sent |-> <<>>,
     error |-> "None", intent |-> "None"]

InitDeliver ==
    /\ source = "json"
    /\ load_result = "returned"
    /\ knowledge_base = NoKnowledgeBase
    /\ limit \in 1..MaxLimit
    /\ update = MessageUpdate(<<>>)
    /\ handler = "send_long_message"
    /\ text \in Texts
    /\ lines = split_nl(text)
    /\ i = 1
    /\ current_chunk = <<>>
    /\ current_length = 0
    /\ reply_markup \in Markups
    /\ arg_reply_markup = reply_markup
    /\ pc = "slm_loop"
    /\ sent = <<>>
    /\ error = "None"
    /\ intent = "None"
    /\ suspended = IdleFrame

NextDeliver ==
    \/ SLM_Line
    \/ SLM_FlushReturns
    \/ SLM_Final
    \/ SLM_FinalReturns
    \/ ReplyRaises

SpecDeliver == InitDeliver /\ [][NextDeliver]_vars

(***************************************************************************)
(* The text constants of the source, with the lengths Python's len gives.  *)
(* An atom named "X.k" is line k of MessageText.X.                         *)
(***************************************************************************)
MAX_TEXT_LENGTH == 4096

\* MessageText.START.format(available_topics=...)
MessageText_START(available_topics) ==
    <<At("START.1", 53), NL, NL, At("START.3", 20), NL, At("START.4", 31), NL,
      At("START.5", 32), NL, At("START.6", 26), NL, At("START.7", 19), NL, NL,
      At("START.9", 32), NL>> \o available_topics \o <<NL, NL, At("START.12", 140),
      NL, NL, At("START.14", 60)>>

MessageText_HELP ==
    <<At("HELP.1", 32), NL, NL, At("HELP.3", 67), NL, At("HELP.4", 18), NL,
      At("HELP.5", 18), NL, At("HELP.6", 16), NL, NL, At("HELP.8", 21), NL,
      At("HELP.9", 32), NL, At("HELP.10", 37), NL, At("HELP.11", 31), NL,
      At("HELP.12", 24), NL, NL, At("HELP.14", 67)>>

MessageText_TEMPLATE_HEADER ==
    <<At("TEMPLATE_HEADER.1", 40), NL, NL>>

MessageText_TEMPLATE_FOOTER ==
    <<NL, NL, At("TEMPLATE_FOOTER.3", 70)>>

MessageText_TESTING_TYPES_HEADER ==
    <<At("TESTING_TYPES_HEADER.1", 45), NL, NL>>

MessageText_UNKNOWN_COMMAND ==
    <<At("UNKNOWN_COMMAND.1", 65)>>

\* MessageText.TOPIC_NOT_FOUND.format(available_topics=...)
MessageText_TOPIC_NOT_FOUND(available_topics) ==
    <<At("TOPIC_NOT_FOUND.1", 33)>> \o available_topics \o <<NL, NL,
      At("TOPIC_NOT_FOUND.3", 73)>>

MessageText_ERROR_MESSAGE ==
    <<At("ERROR_MESSAGE.1", 69)>>

\* a list of str: each entry is the string of its one run of characters
DEFAULT_TEMPLATE ==
    <<<<At("DEFAULT_TEMPLATE[1]", 72)>>, <<At("DEFAULT_TEMPLATE[2]", 67)>>,
      <<At("DEFAULT_TEMPLATE[3]", 60)>>, <<At("DEFAULT_TEMPLATE[4]", 56)>>,
      <<At("DEFAULT_TEMPLATE[5]", 52)>>, <<At("DEFAULT_TEMPLATE[6]", 61)>>,
      <<At("DEFAULT_TEMPLATE[7]", 67)>>, <<At("DEFAULT_TEMPLATE[8]", 51)>>,
      <<At("DEFAULT_TEMPLATE[9]", 53)>>, <<At("DEFAULT_TEMPLATE[10]", 60)>>,
      <<At("DEFAULT_TEMPLATE[11]", 47)>>, <<At("DEFAULT_TEMPLATE[12]", 63)>>,
      <<At("DEFAULT_TEMPLATE[13]", 66)>>, <<At("DEFAULT_TEMPLATE[14]", 57)>>,
      <<At("DEFAULT_TEMPLATE[15]", 65)>>, <<At("DEFAULT_TEMPLATE[16]", 66)>>,
      <<At("DEFAULT_TEMPLATE[17]", 66)>>, <<At("DEFAULT_TEMPLATE[18]", 53)>>,
      <<At("DEFAULT_TEMPLATE[19]", 44)>>, <<At("DEFAULT_TEMPLATE[20]", 62)>>,
      <<At("DEFAULT_TEMPLATE[21]", 47)>>, <<At("DEFAULT_TEMPLATE[22]", 58)>>,
      <<At("DEFAULT_TEMPLATE[23]", 62)>>, <<At("DEFAULT_TEMPLATE[24]", 51)>>,
      <<At("DEFAULT_TEMPLATE[25]", 68)>>, <<At("DEFAULT_TEMPLATE[26]", 46)>>,
      <<At("DEFAULT_TEMPLATE[27]", 50)>>, <<At("DEFAULT_TEMPLATE[28]", 62)>>,
      <<At("DEFAULT_TEMPLATE[29]", 58)>>, <<At("DEFAULT_TEMPLATE[30]", 74)>>>>

TESTING_TYPES ==
    <<<<At("TESTING_TYPES[1]", 19)>>, <<At("TESTING_TYPES[2]", 84)>>,
      <<At("TESTING_TYPES[3]", 74)>>, <<>>, <<At("TESTING_TYPES[5]", 34)>>,
      <<At("TESTING_TYPES[6]", 95)>>, <<At("TESTING_TYPES[7]", 83)>>,
      <<At("TESTING_TYPES[8]", 89)>>, <<>>, <<At("TESTING_TYPES[10]", 30)>>,
      <<At("TESTING_TYPES[11]", 80)>>, <<>>, <<At("TESTING_TYPES[13]", 32)>>,
      <<At("TESTING_TYPES[14]", 54)>>, <<At("TESTING_TYPES[15]", 64)>>,
      <<At("TESTING_TYPES[16]", 80)>>, <<At("TESTING_TYPES[17]", 85)>>,
      <<At("TESTING_TYPES[18]", 62)>>, <<>>, <<At("TESTING_TYPES[20]", 27)>>,
      <<At("TESTING_TYPES[21]", 71)>>, <<At("TESTING_TYPES[22]", 93)>>,
      <<At("TESTING_TYPES[23]", 90)>>, <<>>, <<At("TESTING_TYPES[25]", 26)>>,
      <<At("TESTING_TYPES[26]", 64)>>, <<At("TESTING_TYPES[27]", 72)>>,
      <<At("TESTING_TYPES[28]", 71)>>, <<At("TESTING_TYPES[29]", 72)>>, <<>>,
      <<At("TESTING_TYPES[31]", 22)>>, <<At("TESTING_TYPES[32]", 86)>>,
      <<At("TESTING_TYPES[33]", 78)>>, <<At("TESTING_TYPES[34]", 83)>>, <<>>,
      <<At("TESTING_TYPES[36]", 27)>>, <<At("TESTING_TYPES[37]", 59)>>,
      <<At("TESTING_TYPES[38]", 68)>>, <<At("TESTING_TYPES[39]", 60)>>, <<>>,
      <<At("TESTING_TYPES[41]", 19)>>, <<At("TESTING_TYPES[42]", 80)>>,
      <<At("TESTING_TYPES[43]", 68)>>, <<>>, <<At("TESTING_TYPES[45]", 24)>>,
      <<At("TESTING_TYPES[46]", 85)>>, <<At("TESTING_TYPES[47]", 75)>>,
      <<At("TESTING_TYPES[48]", 73)>>>>

\* the topic names, transliterated
AVAILABLE_TOPICS ==
    <<<<At("avtorizaciya", 11)>>, <<At("registraciya", 11)>>, <<At("navigaciya",
      9)>>, <<At("forma obratnoj svyazi", 20)>>, <<At("poisk", 5)>>,
      <<At("bezopasnost'", 12)>>, <<At("api", 3)>>>>

(***************************************************************************)
(* Characters of inbound texts and of topic keys, and the case mappings    *)
(* str.lower and str.capitalize on them.                                   *)
(***************************************************************************)
SLASH == At("/", 1)

SPACE == At(" ", 1)

QUOTE == At("'", 1)

COMMA_SPACE == At(", ", 2)

COLON == At(":", 1)

UpperA == At("A", 1)

UpperB == At("B", 1)

\* lines 55-57: the values of ButtonText
ButtonText_CHECKLIST_REMINDER == <<At("Napominalka chek-list", 20)>>

ButtonText_TESTING_TYPES == <<At("Vidy testirovaniya", 17)>>

ButtonText_HELP == <<At("Ya zaputalsya", 11)>>

\* the lower-case form of a run of characters
lower_c(c) ==
    CASE c = "A" -> "a"
      [] c = "B" -> "b"
      [] c \in {"Napominalka chek-list", "NAPOMINALKA CHEK-LIST"} -> "napominalka chek-list"
      [] c \in {"Vidy testirovaniya", "VIDY TESTIROVANIYA"} -> "vidy testirovaniya"
      [] c \in {"Ya zaputalsya", "YA ZAPUTALSYA"} -> "ya zaputalsya"
      [] c \in {"Avtorizaciya", "AVTORIZACIYA"} -> "avtorizaciya"
      [] c = "Registraciya" -> "registraciya"
      [] c = "Navigaciya" -> "navigaciya"
      [] c = "Forma obratnoj svyazi" -> "forma obratnoj svyazi"
      [] c = "Poisk" -> "poisk"
      [] c = "Bezopasnost'" -> "bezopasnost'"
      [] c \in {"Api", "API"} -> "api"
      [] c = "START" -> "start"
      [] c = "Kkk...k" -> "kkk...k"
      [] OTHER -> c

\* a lower-case run of characters with its first character in upper case
upper_first_c(c) ==
    CASE c = "a" -> "A"
      [] c = "b" -> "B"
      [] c = "napominalka chek-list" -> "Napominalka chek-list"
      [] c = "vidy testirovaniya" -> "Vidy testirovaniya"
      [] c = "ya zaputalsya" -> "Ya zaputalsya"
      [] c = "avtorizaciya" -> "Avtorizaciya"
      [] c = "registraciya" -> "Registraciya"
      [] c = "navigaciya" -> "Navigaciya"
      [] c = "forma obratnoj svyazi" -> "Forma obratnoj svyazi"
      [] c = "poisk" -> "Poisk"
      [] c = "bezopasnost'" -> "Bezopasnost'"
      [] c = "api" -> "Api"
      [] c = "start" -> "Start"
      [] c = "kkk...k" -> "Kkk...k"
      [] OTHER -> c

\* str.lower()
lower(s) == [k \in 1..Len(s) |-> At(lower_c(s[k].c), s[k].n)]

\* str.capitalize(): the first character in upper case, the rest in lower case
capitalize(s) ==
    [k \in 1..Len(s) |->
        At(IF k = 1 THEN upper_first_c(lower_c(s[k].c)) ELSE lower_c(s[k].c), s[k].n)]

\* str.startswith('/')
startswith_slash(s) == s # <<>> /\ s[1] = SLASH

\* sep.join(list)
RECURSIVE join(_, _)
join(sep, list) ==
    IF list = <<>> THEN <<>>
    ELSE IF Len(list) = 1 THEN list[1]
    ELSE list[1] \o sep \o join(sep, Tail(list))

(***************************************************************************)
(* KnowledgeBaseLoader.load and the knowledge bases checklists.json may    *)
(* hold.  A topic is a JSON object: a function on the keys it has.         *)
(***************************************************************************)
Functionality == <<At("Funkcional'nost'", 16)>>

Interface == <<At("UI", 2)>>

LoginCheck == <<At("Proverka vhoda", 14)>>

ItemTwo == <<At("item 2", 6)>>

ItemThree == <<At("item 3", 6)>>

LongItem == <<At("long item", 4000)>>

Avtorizaciya == <<At("avtorizaciya", 11)>>

Poisk == <<At("poisk", 5)>>

Api == <<At("api", 3)>>

LongKey == <<At("kkk...k", 4075)>>

\* the data of section 8's scenario, and topics of several categories
KB_Shipped ==
    (Avtorizaciya :> [categories |-> <<Functionality>>,
                      items |-> (Functionality :> <<LoginCheck>>)])
    @@ (Poisk :> [categories |-> <<Interface, Functionality>>,
                  items |-> (Functionality :> <<LoginCheck, ItemTwo>>)
                            @@ (Interface :> <<ItemThree>>)])
    @@ (Api :> [categories |-> <<Functionality, Interface>>,
                items |-> (Functionality :> <<ItemThree, ItemTwo, LoginCheck>>)
                          @@ (Interface :> <<>>)])

\* keys that are not lower-case, collide with a button label or start with '/',
\* and topics that lack a key
KB_Odd ==
    (<<UpperA, B>> :> [categories |-> <<Functionality>>,
                       items |-> (Functionality :> <<LoginCheck>>)])
    @@ (lower(ButtonText_CHECKLIST_REMINDER) :>
            [categories |-> <<Interface>>, items |-> (Interface :> <<ItemTwo>>)])
    @@ (<<SLASH, SPACE, A>> :> [categories |-> <<Interface>>,
                                items |-> (Interface :> <<ItemThree>>)])
    @@ (<<A>> :> [items |-> (Interface :> <<ItemThree>>)])
    @@ (<<B>> :> [categories |-> <<Interface, Functionality>>,
                  items |-> (Interface :> <<ItemThree>>)])

\* topics whose checklist is longer than one message
KB_Long ==
    (<<A, B>> :> [categories |-> <<Functionality, Interface>>,
                  items |-> (Functionality :> <<LongItem, ItemTwo, LongItem>>)
                            @@ (Interface :> <<LongItem, LongItem>>)])
    @@ (LongKey :> [categories |-> <<Interface>>,
                    items |-> (Interface :> <<ItemTwo>>)])

KBs == {NoKnowledgeBase, KB_Shipped, KB_Odd, KB_Long}

\* what open()/json.load() can meet at 'checklists.json'
Sources ==
    {[kind |-> "json", content |-> kb] : kb \in KBs}
    \cup {[kind |-> k, content |-> NoKnowledgeBase] :
            k \in {"absent", "not_json", "unreadable"}}

\* lines 69-77: how load ends. Only FileNotFoundError and JSONDecodeError are
\* caught; any other exception of open() or json.load() leaves load.
load_result_of_catching_one(src) ==
    CASE src.kind = "json" -> "returned"
      [] src.kind = "absent" -> "FileNotFoundError"
      [] OTHER -> "raised"

load_result_of(src) ==
    CASE src.kind = "json" -> "returned"
      [] src.kind = "absent" -> "FileNotFoundError"
      [] src.kind = "not_json" -> "JSONDecodeError"
      [] OTHER -> "raised"

\* lines 71, 74, 77: what load returns
load(src) == IF src.kind = "json" THEN src.content ELSE NoKnowledgeBase

(***************************************************************************)
(* ChecklistGenerator.generate                                             *)
(***************************************************************************)
TOPIC_HEADER == At("TOPIC_HEADER", 21)

CATEGORY_MARK == At("CATEGORY_MARK", 2)

BULLET == At("BULLET", 2)

\* lines 83, 86, 88: a KeyError
generate_raises(topic, kb) ==
    LET topic_data == kb[topic]
    IN \/ "categories" \notin DOMAIN topic_data
       \/ \E k \in 1..Len(topic_data["categories"]) :
             \/ "items" \notin DOMAIN topic_data
             \/ topic_data["categories"][k] \notin DOMAIN topic_data["items"]

\* line 88: the bullets of one category
bullets(items) == [k \in 1..Len(items) |-> <<BULLET>> \o items[k]]

\* lines 86-88: what the loop appends for the categories it is given
RECURSIVE checklist_of(_, _)
checklist_of(topic_data, categories) ==
    IF categories = <<>> THEN <<>>
    ELSE <<<<NL, CATEGORY_MARK>> \o Head(categories) \o <<COLON>>>>
         \o bullets(topic_data["items"][Head(categories)])
         \o checklist_of(topic_data, Tail(categories))

categories_reversed(topic_data) ==
    [k \in 1..Len(topic_data["categories"]) |->
        topic_data["categories"][Len(topic_data["categories"]) + 1 - k]]

\* line 86: the order the categories are visited in
categories_in_order(topic_data) == topic_data["categories"]

\* lines 83-90
generate(topic, kb) ==
    join_nl(<<<<TOPIC_HEADER>> \o capitalize(topic)>>
            \o checklist_of(kb[topic], categories_in_order(kb[topic])))

(***************************************************************************)
(* The texts the handlers build.                                           *)
(***************************************************************************)
\* line 140
welcome_topics ==
    join_nl([k \in 1..Len(AVAILABLE_TOPICS) |-> <<BULLET>> \o capitalize(AVAILABLE_TOPICS[k])])

\* line 141
welcome_text == MessageText_START(welcome_topics)

\* line 173
template ==
    MessageText_TEMPLATE_HEADER
    \o join_nl([k \in 1..Len(DEFAULT_TEMPLATE) |-> <<BULLET>> \o DEFAULT_TEMPLATE[k]])
    \o MessageText_TEMPLATE_FOOTER

\* line 178
types_text == MessageText_TESTING_TYPES_HEADER \o join_nl(TESTING_TYPES)

\* lines 166-169
topic_not_found_text ==
    MessageText_TOPIC_NOT_FOUND(
        join(<<COMMA_SPACE>>,
             [k \in 1..Len(AVAILABLE_TOPICS) |-> <<QUOTE>> \o AVAILABLE_TOPICS[k] \o <<QUOTE>>]))

(***************************************************************************)
(* The updates and their routing by the handlers main() registers.         *)
(***************************************************************************)
InboundTexts ==
    { ButtonText_CHECKLIST_REMINDER, ButtonText_TESTING_TYPES, ButtonText_HELP,
      lower(ButtonText_CHECKLIST_REMINDER), <<At("YA ZAPUTALSYA", 11)>>,
      ButtonText_HELP \o <<A>>,
      Avtorizaciya, capitalize(Avtorizaciya), Poisk, Api,
      <<At("navigaciya", 9)>>, <<A>>, <<B>>, <<A, B>>, <<UpperA, B>>, LongKey,
      <<SLASH, At("start", 5)>>, <<SLASH, At("template", 8)>>,
      <<SLASH, At("types", 5)>>, <<SLASH, At("help", 4)>>,
      <<SLASH, At("START", 5)>>, <<SLASH, At("start", 5), SPACE, A>>,
      <<SLASH, At("unknown", 7)>>, <<SLASH>>, <<SLASH, SPACE, A>> }

\* An Update: `kind` says which of its optional fields holds the message
\* ("message": update.message; "edited_message": update.message is None and
\* update.edited_message holds it; "None": there is no update at all).
Updates == {[kind |-> k, text |-> t] : k \in {"message", "edited_message"}, t \in InboundTexts}

\* the characters a bot command is made of
IsCommandChar(a) ==
    a.c \in {"a", "b", "A", "B", "start", "START", "template", "types", "help", "unknown"}

\* filters.COMMAND: the text starts with a bot command, '/' and command characters
IsCommand(t) == Len(t) >= 2 /\ t[1] = SLASH /\ IsCommandChar(t[2])

\* the command's name: the command characters after the '/'
RECURSIVE CommandChars(_)
CommandChars(t) ==
    IF t = <<>> \/ ~IsCommandChar(Head(t)) THEN <<>>
    ELSE <<Head(t)>> \o CommandChars(Tail(t))

CommandName(t) == lower(CommandChars(Tail(t)))

\* lines 288-292: the handler the update goes to; the first that accepts it
Route(u) ==
    IF IsCommand(u.text)
    THEN CASE CommandName(u.text) = <<At("start", 5)>> -> "start"
           [] CommandName(u.text) = <<At("template", 8)>> -> "send_template"
           [] CommandName(u.text) = <<At("types", 5)>> -> "send_testing_types"
           [] CommandName(u.text) = <<At("help", 4)>> -> "help"
           [] OTHER -> "none"
    ELSE "handle_message"

(***************************************************************************)
(* AdvancedChecklistBot                                                    *)
(***************************************************************************)
\* a handler that is not inside send_long_message
no_send_long_message ==
    /\ text' = <<>>
    /\ lines' = <<>>
    /\ i' = 1
    /\ current_chunk' = <<>>
    /\ current_length' = 0
    /\ reply_markup' = "None"
    /\ arg_reply_markup' = "None"

\* lines 131-143
start(u) ==
    /\ call_send_long_message(welcome_text, "keyboard")
    /\ sent' = <<>>
    /\ error' = "None"

\* lines 145-147
help(u) ==
    /\ reply_text(u, TRUE, MessageText_HELP, "None", "await_reply", "raised")
    /\ no_send_long_message

\* lines 171-174
send_template_with_keyboard(u) ==
    /\ call_send_long_message(template, "keyboard")
    /\ sent' = <<>>
    /\ error' = "None"

send_template(u) ==
    /\ call_send_long_message(template, "None")
    /\ sent' = <<>>
    /\ error' = "None"

\* lines 176-179
send_testing_types(u) ==
    /\ call_send_long_message(types_text, "None")
    /\ sent' = <<>>
    /\ error' = "None"

classify_topic_first(t, kb) ==
    IF t \in DOMAIN kb THEN "ShowTopic"
    ELSE IF t = lower(ButtonText_CHECKLIST_REMINDER) THEN "ShowTemplate"
    ELSE IF t = lower(ButtonText_TESTING_TYPES) THEN "ShowTestingTypes"
    ELSE IF t = lower(ButtonText_HELP) THEN "ShowHelp"
    ELSE IF startswith_slash(t) THEN "UnknownCommand"
    ELSE "UnknownTopic"

\* lines 154-165: the branch of the if/elif chain taken for the lowered text
classify(t, kb) ==
    IF t = lower(ButtonText_CHECKLIST_REMINDER) THEN "ShowTemplate"
    ELSE IF t = lower(ButtonText_TESTING_TYPES) THEN "ShowTestingTypes"
    ELSE IF t = lower(ButtonText_HELP) THEN "ShowHelp"
    ELSE IF t \in DOMAIN kb THEN "ShowTopic"
    ELSE IF startswith_slash(t) THEN "UnknownCommand"
    ELSE "UnknownTopic"

\* line 151: text = update.message.text.lower()
message_text_as_typed(u) == u.text

message_text(u) == lower(u.text)

\* lines 149-169
handle_message(u) ==
    IF u.kind # "message"
    THEN /\ pc' = "raised"
         /\ error' = "AttributeError"
         /\ intent' = "None"
         /\ sent' = <<>>
         /\ no_send_long_message
    ELSE /\ intent' = classify(message_text(u), knowledge_base)
         /\ CASE intent' = "ShowTemplate" -> send_template(u)
              [] intent' = "ShowTestingTypes" -> send_testing_types(u)
              [] intent' = "ShowHelp" -> help(u)
              [] intent' = "ShowTopic" ->
                    IF generate_raises(message_text(u), knowledge_base)
                    THEN /\ pc' = "raised"
                         /\ error' = "KeyError"
                         /\ sent' = <<>>
                         /\ no_send_long_message
                    ELSE /\ call_send_long_message(
                                generate(message_text(u), knowledge_base), "None")
                         /\ sent' = <<>>
                         /\ error' = "None"
              [] intent' = "UnknownCommand" ->
                    /\ reply_text(u, TRUE, MessageText_UNKNOWN_COMMAND, "None",
                                  "await_reply", "raised")
                    /\ no_send_long_message
              [] OTHER ->
                    /\ reply_text(u, TRUE, topic_not_found_text, "None",
                                  "await_reply", "raised")
                    /\ no_send_long_message

\* lines 181-185
error_handler(u) ==
    IF u.kind # "None" /\ u.kind \in {"message", "edited_message"}
    THEN reply_text(u, FALSE, MessageText_ERROR_MESSAGE, "None", "eh_await", "eh_raised")
    ELSE /\ pc' = "eh_returned"
         /\ UNCHANGED <<sent, error>>

\* the states in which the application takes the next update
Quiescent == {"idle", "returned", "unhandled", "eh_returned", "eh_raised"}

\* line 288: CommandHandler("start", bot.start)
OnStart(u) ==
    /\ pc \in Quiescent
    /\ Route(u) = "start"
    /\ update' = u
    /\ handler' = "start"
    /\ intent' = "ShowWelcome"
    /\ start(u)
    /\ UNCHANGED <<source, load_result, knowledge_base, limit, suspended>>

\* line 289: CommandHandler("template", bot.send_template)
OnTemplate(u) ==
    /\ pc \in Quiescent
    /\ Route(u) = "send_template"
    /\ update' = u
    /\ handler' = "send_template"
    /\ intent' = "ShowTemplate"
    /\ send_template(u)
    /\ UNCHANGED <<source, load_result, knowledge_base, limit, suspended>>

\* line 290: CommandHandler("types", bot.send_testing_types)
OnTypes(u) ==
    /\ pc \in Quiescent
    /\ Route(u) = "send_testing_types"
    /\ update' = u
    /\ handler' = "send_testing_types"
    /\ intent' = "ShowTestingTypes"
    /\ send_testing_types(u)
    /\ UNCHANGED <<source, load_result, knowledge_base, limit, suspended>>

\* line 291: CommandHandler("help", bot.help)
OnHelp(u) ==
    /\ pc \in Quiescent
    /\ Route(u) = "help"
    /\ update' = u
    /\ handler' = "help"
    /\ intent' = "ShowHelp"
    /\ help(u)
    /\ UNCHANGED <<source, load_result, knowledge_base, limit, suspended>>

\* line 292: MessageHandler(filters.TEXT & ~filters.COMMAND, bot.handle_message)
OnTextForgettingTopic(u) ==
    /\ pc \in Quiescent
    /\ Route(u) = "handle_message"
    /\ update' = u
    /\ handler' = "handle_message"
    /\ handle_message(u)
    /\ knowledge_base' = [k \in DOMAIN knowledge_base \ {message_text(u)} |-> knowledge_base[k]]
    /\ UNCHANGED <<source, load_result, limit, suspended>>

OnText(u) ==
    /\ pc \in Quiescent
    /\ Route(u) = "handle_message"
    /\ update' = u
    /\ handler' = "handle_message"
    /\ handle_message(u)
    /\ UNCHANGED <<source, load_result, knowledge_base, limit, suspended>>

\* lines 288-292: no registered handler accepts the update; nothing runs
OnUnhandled(u) ==
    /\ pc \in Quiescent
    /\ Route(u) = "none"
    /\ update' = u
    /\ handler' = "none"
    /\ intent' = "None"
    /\ pc' = "unhandled"
    /\ sent' = <<>>
    /\ error' = "None"
    /\ no_send_long_message
    /\ UNCHANGED <<source, load_result, knowledge_base, limit, suspended>>

\* an awaited reply_text of help or handle_message returns, and so does the handler
ReplyReturns ==
    /\ pc = "await_reply"
    /\ pc' = "returned"
    /\ UNCHANGED <<sent, error, intent>>
    /\ UNCHANGED slm_vars
    /\ UNCHANGED bot_vars

\* line 298: the exception is given to error_handler, with the update of the
\* handler it left
OnError ==
    /\ pc = "raised"
    /\ error_handler(update)
    /\ UNCHANGED intent
    /\ UNCHANGED slm_vars
    /\ UNCHANGED bot_vars

\* lines 298, 302: an exception outside any handler (while polling) is on its
\* way to error_handler, with the update None
PollingRaises ==
    /\ pc \in Quiescent
    /\ update' = NoUpdate
    /\ handler' = "none"
    /\ intent' = "None"
    /\ sent' = <<>>
    /\ error' = "NetworkError"
    /\ pc' = "raised"
    /\ no_send_long_message
    /\ UNCHANGED <<source, load_result, knowledge_base, limit, suspended>>

\* line 185: the await returns and so does error_handler
ApologyReturns ==
    /\ pc = "eh_await"
    /\ pc' = "eh_returned"
    /\ UNCHANGED <<sent, error, intent>>
    /\ UNCHANGED slm_vars
    /\ UNCHANGED bot_vars

\* line 185: the awaited reply_text raises; nothing in error_handler catches it
ApologyRaises ==
    /\ pc = "eh_await"
    /\ pc' = "eh_raised"
    /\ error' = "TelegramError"
    /\ UNCHANGED <<sent, intent>>
    /\ UNCHANGED slm_vars
    /\ UNCHANGED bot_vars

\* lines 284, 116-118: the bot is constructed, which loads the knowledge base;
\* an exception load does not catch ends main()
Init ==
    /\ \E src \in Sources :
          /\ source = src.kind
          /\ load_result = load_result_of(src)
          /\ knowledge_base = load(src)
    /\ limit = MAX_TEXT_LENGTH
    /\ pc = IF load_result = "raised" THEN "crashed" ELSE "idle"
    /\ update = NoUpdate
    /\ handler = "none"
    /\ intent = "None"
    /\ text = <<>>
    /\ lines = <<>>
    /\ i = 1
    /\ current_chunk = <<>>
    /\ current_length = 0
    /\ reply_markup = "None"
    /\ arg_reply_markup = "None"
    /\ sent = <<>>
    /\ error = "None"
    /\ suspended = IdleFrame

Next ==
    \/ \E u \in Updates :
          \/ OnStart(u)
          \/ OnTemplate(u)
          \/ OnTypes(u)
          \/ OnHelp(u)
          \/ OnText(u)
          \/ OnUnhandled(u)
    \/ SLM_Line
    \/ SLM_FlushReturns
    \/ SLM_Final
    \/ SLM_FinalReturns
    \/ ReplyReturns
    \/ ReplyRaises
    \/ OnError
    \/ PollingRaises
    \/ ApologyReturns
    \/ ApologyRaises

Spec == Init /\ [][Next]_vars

(***************************************************************************)
(* Two handler tasks on one event loop.  The locals of a coroutine are its *)
(* own; the fields of the bot (and the module constants) are shared.  The  *)
(* task that runs is the one the variables update .. intent describe, the  *)
(* other one waits in `suspended`; the loop changes task only where the    *)
(* running one awaits or has ended.                                        *)
(***************************************************************************)
AwaitPoints == {"slm_await_flush", "slm_await_final", "await_reply", "eh_await"}

RunningFrame ==
    [update |-> update, handler |-> handler, pc |-> pc, text |-> text,
     lines |-> lines, i |-> i, current_chunk |-> current_chunk,
     current_length |-> current_length, reply_markup |-> reply_markup,
     arg_reply_markup |-> arg_reply_markup, sent |-> sent, error |-> error,
     intent |-> intent]

\* lines 104, 113, 147, 157, 164, 166, 185: at an await the event loop may run
\* the other task
Switch ==
    /\ pc \in AwaitPoints \cup Quiescent
    /\ suspended # RunningFrame
    /\ suspended' = RunningFrame
    /\ update' = suspended.update
    /\ handler' = suspended.handler
    /\ pc' = suspended.pc
    /\ text' = suspended.text
    /\ lines' = suspended.lines
    /\ i' = suspended.i
    /\ current_chunk' = suspended.current_chunk
    /\ current_length' = suspended.current_length
    /\ reply_markup' = suspended.reply_markup
    /\ arg_reply_markup' = suspended.arg_reply_markup
    /\ sent' = suspended.sent
    /\ error' = suspended.error
    /\ intent' = suspended.intent
    /\ UNCHANGED <<source, load_result, knowledge_base, limit>>

InterleavedUpdates ==
    {MessageUpdate(t) : t \in { <<SLASH, At("start", 5)>>, <<SLASH, At("template", 8)>>,
                                <<SLASH, At("types", 5)>>, <<SLASH, At("help", 4)>>,
                                <<SLASH, At("unknown", 7)>>, ButtonText_HELP,
                                <<A, B>>, <<UpperA, B>>, Avtorizaciya, <<B>> }}

InitInterleaved ==
    /\ Init
    /\ knowledge_base \in {KB_Long, KB_Odd}

NextInterleaved ==
    \/ \E u \in InterleavedUpdates :
          \/ OnStart(u)
          \/ OnTemplate(u)
          \/ OnTypes(u)
          \/ OnHelp(u)
          \/ OnText(u)
          \/ OnUnhandled(u)
    \/ SLM_Line
    \/ SLM_FlushReturns
    \/ SLM_Final
    \/ SLM_FinalReturns
    \/ ReplyReturns
    \/ ReplyRaises
    \/ OnError
    \/ PollingRaises
    \/ ApologyReturns
    \/ ApologyRaises
    \/ Switch

SpecInterleaved == InitInterleaved /\ [][NextInterleaved]_vars

(***************************************************************************)
(* send_long_message alone, at the limit of the source, on texts of        *)
(* ScenarioLength characters whose lines have at most ScenarioLineMax      *)
(* characters: lines of a and of b characters in turn, the last one cut    *)
(* where the text ends.                                                    *)
(***************************************************************************)
ScenarioLength == 5000
ScenarioLineMax == 80

Min(a, b) == IF a < b THEN a ELSE b

Filler(n) == IF n = 0 THEN <<>> ELSE <<At("x", n)>>

\* the lines of a text of r characters: line k starts at character first_char(k)
ScenarioLines(a, b, r) ==
    LET first_char(k) == ((k - 1) \div 2) * (a + b + 2) + (IF k % 2 = 0 THEN a + 1 ELSE 0)
        n == CHOOSE k \in 1..(r + 1) : first_char(k) <= r /\ first_char(k + 1) > r
    IN [k \in 1..n |-> Filler(Min(IF k % 2 = 0 THEN b ELSE a, r - first_char(k)))]

ScenarioTexts ==
    {join_nl(ScenarioLines(a, b, ScenarioLength)) :
        a \in 0..ScenarioLineMax, b \in (ScenarioLineMax - 1)..ScenarioLineMax}

InitPacking ==
    /\ source = "json"
    /\ load_result = "returned"
    /\ knowledge_base = NoKnowledgeBase
    /\ limit = MAX_TEXT_LENGTH
    /\ update = MessageUpdate(<<>>)
    /\ handler = "send_long_message"
    /\ text \in ScenarioTexts
    /\ lines = split_nl(text)
    /\ i = 1
    /\ current_chunk = <<>>
    /\ current_length = 0
    /\ reply_markup \in Markups
    /\ arg_reply_markup = reply_markup
    /\ pc = "slm_loop"
    /\ sent = <<>>
    /\ error = "None"
    /\ intent = "None"
    /\ suspended = IdleFrame

SpecPacking == InitPacking /\ [][NextDeliver]_vars

(***************************************************************************)
(* The claims.                                                             *)
(***************************************************************************)
SentTexts == [k \in 1..Len(sent) |-> sent[k].text]

HasNL(s) == \E k \in 1..Len(s) : s[k] = NL

\* C1: when a call of send_long_message has returned, the texts of its sends,
\* joined in emission order with one line feed between consecutive sends, are
\* the text it was given.
C1_RoundTrip ==
    (handler = "send_long_message" /\ pc = "returned") => join_nl(SentTexts) = text

\* C2: every send of send_long_message is at most `limit` characters long,
\* except a send that is one single line longer than the limit.
C2_ChunkSizeBound ==
    handler = "send_long_message" =>
        \A k \in 1..Len(sent) :
            \/ StrLen(sent[k].text) <= limit
            \/ ~HasNL(sent[k].text) /\ StrLen(sent[k].text) > limit

\* C2 witness: a finished call that sent a chunk of several lines and a chunk
\* that is one over-long line.
C2_Witness ==
    /\ handler = "send_long_message"
    /\ pc = "returned"
    /\ \E k \in 1..Len(sent) : HasNL(sent[k].text) /\ StrLen(sent[k].text) = limit - 1
    /\ \E k \in 1..Len(sent) : StrLen(sent[k].text) > limit

\* C3: whenever a send of send_long_message is in flight, the accumulator it was
\* joined from holds at least one line.
C3_FlushOnlyNonEmpty ==
    (handler = "send_long_message" /\ pc \in {"slm_await_flush", "slm_await_final"})
        => current_chunk # <<>>

\* C4: the first send of a call of send_long_message carries the reply_markup
\* the caller passed, and every later send carries None.
C4_AttachmentOnFirstOnly ==
    handler = "send_long_message" =>
        \A k \in 1..Len(sent) :
            sent[k].reply_markup = IF k = 1 THEN arg_reply_markup ELSE "None"

\* C4 witness: a finished call, given a keyboard, that issued three sends.
C4_Witness ==
    /\ handler = "send_long_message"
    /\ pc = "returned"
    /\ arg_reply_markup = "keyboard"
    /\ Len(sent) >= 3

(***************************************************************************)
(* Claims about the bot as main() wires it.                                *)
(***************************************************************************)
ButtonLabels ==
    {lower(ButtonText_CHECKLIST_REMINDER), lower(ButtonText_TESTING_TYPES),
     lower(ButtonText_HELP)}

IsButtonLabel(t) == lower(t) \in ButtonLabels

OneSend(t, rm) == <<[text |-> t, reply_markup |-> rm]>>

\* C5: the branch handle_message takes is fixed by the lowered text alone, in the
\* order button label, knowledge-base key, leading '/', unknown topic, each by
\* exact equality; and the response it starts is the one of that branch.
C5_ClassifyPriority ==
    (handler = "handle_message" /\ update.kind = "message") =>
        LET t == lower(update.text)
            key == t \in DOMAIN knowledge_base
            button == t \in ButtonLabels
        IN /\ (intent = "ShowTemplate") <=> (t = lower(ButtonText_CHECKLIST_REMINDER))
           /\ (intent = "ShowTestingTypes") <=> (t = lower(ButtonText_TESTING_TYPES))
           /\ (intent = "ShowHelp") <=> (t = lower(ButtonText_HELP))
           /\ (intent = "ShowTopic") <=> (~button /\ key)
           /\ (intent = "UnknownCommand") <=> (~button /\ ~key /\ startswith_slash(t))
           /\ (intent = "UnknownTopic") <=> (~button /\ ~key /\ ~startswith_slash(t))
           /\ intent = "ShowTemplate" => text = template
           /\ intent = "ShowTestingTypes" => text = types_text
           /\ intent = "ShowHelp" => sent[1].text = MessageText_HELP
           /\ intent = "UnknownCommand" => sent[1].text = MessageText_UNKNOWN_COMMAND
           /\ intent = "UnknownTopic" => sent[1].text = topic_not_found_text

\* C5 witness: a text that is a button label and a key of the knowledge base
\* was answered with the button's response.
C5_Witness ==
    /\ handler = "handle_message"
    /\ pc = "returned"
    /\ lower(update.text) \in DOMAIN knowledge_base
    /\ lower(update.text) \in ButtonLabels
    /\ intent = "ShowTemplate"
    /\ sent = OneSend(template, "None")

\* '/start', '/template', '/types' or '/help', as the command handlers take them
IsRegisteredCommand(t) ==
    /\ IsCommand(t)
    /\ CommandName(t) \in {<<At("start", 5)>>, <<At("template", 8)>>,
                           <<At("types", 5)>>, <<At("help", 4)>>}

\* C6: when the bot is through with a message whose text starts with '/' and is
\* no registered command, it has sent MessageText.UNKNOWN_COMMAND, once.
C6_UnknownCommand ==
    ( /\ update.kind = "message"
      /\ startswith_slash(update.text)
      /\ ~IsRegisteredCommand(update.text)
      /\ pc \in {"returned", "unhandled"} )
    => sent = OneSend(MessageText_UNKNOWN_COMMAND, "None")

\* str.strip() of the spaces
RECURSIVE trim(_)
trim(s) ==
    IF s = <<>> THEN s
    ELSE IF Head(s) = SPACE THEN trim(Tail(s))
    ELSE IF s[Len(s)] = SPACE THEN trim(SubSeq(s, 1, Len(s) - 1))
    ELSE s

normalize(s) == trim(lower(s))

\* C7: a message text that is no button label and equals a key of the knowledge
\* base after both are case-folded and trimmed is answered with that topic.
C7_SameNormalization ==
    ( /\ handler = "handle_message"
      /\ update.kind = "message"
      /\ ~IsButtonLabel(update.text)
      /\ \E key \in DOMAIN knowledge_base : normalize(update.text) = normalize(key) )
    => intent = "ShowTopic"

\* C8: error_handler never ends with an exception, and when it has returned it
\* has sent MessageText.ERROR_MESSAGE exactly if the update has a message.
C8_ErrorHandlerNeverRaises ==
    /\ pc # "eh_raised"
    /\ pc = "eh_returned" =>
          ( (sent # <<>> /\ sent[Len(sent)].text = MessageText_ERROR_MESSAGE)
            <=> update.kind = "message" )

\* the response the claim C9 fixes for a text, when the knowledge base is empty
StaticResponse(t) ==
    CASE t = <<SLASH, At("start", 5)>> -> OneSend(welcome_text, "keyboard")
      [] t = <<SLASH, At("template", 8)>> -> OneSend(template, "None")
      [] t = <<SLASH, At("types", 5)>> -> OneSend(types_text, "None")
      [] t = <<SLASH, At("help", 4)>> -> OneSend(MessageText_HELP, "None")
      [] lower(t) = lower(ButtonText_CHECKLIST_REMINDER) -> OneSend(template, "None")
      [] lower(t) = lower(ButtonText_TESTING_TYPES) -> OneSend(types_text, "None")
      [] lower(t) = lower(ButtonText_HELP) -> OneSend(MessageText_HELP, "None")
      [] OTHER -> OneSend(topic_not_found_text, "None")

RECURSIVE LinesOfCategories(_, _)
LinesOfCategories(topic_data, k) ==
    IF k = 0 THEN 0
    ELSE LinesOfCategories(topic_data, k - 1) + 2
         + Len(topic_data["items"][topic_data["categories"][k]])

\* C10: the lines of generate's output are the topic's header and then, for
\* each category in the declared order, an empty line, the category's header
\* and, right after it, one bullet per item in the declared order; nothing else.
C10_GenerateStructure ==
    (handler = "handle_message" /\ intent = "ShowTopic" /\ text # <<>>) =>
        LET topic == lower(update.text)
            topic_data == knowledge_base[topic]
            categories == topic_data["categories"]
            out == split_nl(text)
            header(k) == 1 + LinesOfCategories(topic_data, k - 1) + 2
        IN /\ out[1] = <<TOPIC_HEADER>> \o capitalize(topic)
           /\ Len(out) = 1 + LinesOfCategories(topic_data, Len(categories))
           /\ \A k \in 1..Len(categories) :
                 LET items == topic_data["items"][categories[k]]
                 IN /\ out[header(k) - 1] = <<>>
                    /\ out[header(k)] = <<CATEGORY_MARK>> \o categories[k] \o <<COLON>>
                    /\ \A j \in 1..Len(items) :
                          out[header(k) + j] = <<BULLET>> \o items[j]

\* C10 witness: the checklist of a topic of two categories, one of several
\* items, was delivered.
C10_Witness ==
    /\ handler = "handle_message"
    /\ intent = "ShowTopic"
    /\ pc = "returned"
    /\ lower(update.text) = Poisk
    /\ sent = OneSend(text, "None")

(***************************************************************************)
(* Claims about the packing, the failures and the order of the sends.      *)
(***************************************************************************)
FirstLine(t) == split_nl(t)[1]

\* C11: a send is followed by another one only when the first line of the
\* next one, added (with its separator) to the running length of the sent
\* chunk, would have exceeded the limit; so a call on a text of ScenarioLength
\* characters in lines of at most ScenarioLineMax characters, at the limit
\* 4096, returns after exactly 2 sends, the first of at most 4096 characters,
\* and only the first carries the attachment the caller gave.
C11_GreedyPacking ==
    /\ \A k \in 1..(Len(sent) - 1) :
          (StrLen(sent[k].text) + 1) + (StrLen(FirstLine(sent[k + 1].text)) + 1) > limit
    /\ (/\ pc = "returned"
        /\ limit = MAX_TEXT_LENGTH
        /\ StrLen(text) = ScenarioLength
        /\ \A k \in 1..Len(lines) : StrLen(lines[k]) <= ScenarioLineMax)
       => /\ Len(sent) = 2
          /\ StrLen(sent[1].text) <= MAX_TEXT_LENGTH
          /\ sent[1].reply_markup = arg_reply_markup
          /\ sent[2].reply_markup = "None"

C11_Witness ==
    /\ pc = "returned"
    /\ limit = MAX_TEXT_LENGTH
    /\ StrLen(text) = ScenarioLength
    /\ \A k \in 1..Len(lines) : StrLen(lines[k]) <= ScenarioLineMax
    /\ \E k \in 1..Len(lines) : StrLen(lines[k]) < ScenarioLineMax - 1
    /\ arg_reply_markup = "keyboard"
    /\ Len(sent) = 2

\* C12: whatever updates and errors the bot has handled, a send that carries
\* the three-button keyboard was issued by the start handler, for its welcome
\* text, and is the first send issued for that update.
C12_KeyboardOnlyOnWelcome ==
    \A k \in 1..Len(sent) :
        sent[k].reply_markup = "keyboard"
        => /\ handler = "start"
           /\ intent = "ShowWelcome"
           /\ k = 1
           /\ sent[k].text = join_nl(SubSeq(split_nl(welcome_text), 1, Len(split_nl(sent[k].text))))

C12_Witness ==
    /\ handler = "start"
    /\ pc = "eh_returned"
    /\ Len(sent) = 2
    /\ sent[1].reply_markup = "keyboard"
    /\ sent[2].reply_markup = "None"

\* C13: when a send of a call of send_long_message fails, the failure leaves
\* the call (it is raised to the caller), and from then on the call issues no
\* send: neither the chunk that failed again nor any later chunk.
C13_StopsOnFailure ==
    [][/\ error' = "TelegramError" => pc' = "raised"
       /\ error = "TelegramError" => (sent' = sent /\ pc' = "raised")]_vars

\* the second send of a call has failed while lines were still to be sent
C13_Witness ==
    /\ pc = "raised"
    /\ error = "TelegramError"
    /\ Len(sent) = 2
    /\ i <= Len(lines)

InFlight == pc \in {"slm_await_flush", "slm_await_final"}

IsPrefix(s, t) == Len(s) <= Len(t) /\ s = SubSeq(t, 1, Len(s))

\* the sends that carry lines of the text: all of them, but for the send of the
\* empty accumulator that precedes a first line longer than the limit
SendsOfLines ==
    IF sent # <<>> /\ exceeds(0, line_length(lines[1]), limit)
    THEN Tail(SentTexts)
    ELSE SentTexts

\* C14: within one call of send_long_message a send is issued only while no
\* send of the call is in flight, and the call then waits for that send; so at
\* most one send is in flight, send i + 1 is issued after send i completed,
\* and the sends, in the order issued, are consecutive pieces of the text
\* from its start.
C14_SequentialInOrder ==
    [][/\ sent' # sent => /\ ~InFlight
                          /\ InFlight'
                          /\ Len(sent') = Len(sent) + 1
                          /\ SubSeq(sent', 1, Len(sent)) = sent
       /\ IsPrefix(join_nl(SendsOfLines), text)']_vars

\* the third send is in flight, the first two having completed in turn
C14_Witness ==
    /\ pc = "slm_await_final"
    /\ Len(sent) = 3
    /\ sent[1].text # sent[2].text
    /\ sent[2].text # sent[3].text
    /\ sent[1].text # <<>>

(***************************************************************************)
(* Claims about two tasks on one loop, the topics and the buttons.         *)
(***************************************************************************)
\* the running length of the chunk of the lines a..e of ls
weight(ls, a, e) == StrLen(join_nl(SubSeq(ls, a, e))) + 1

\* the last line of the chunk that starts with line a: the chunk takes the
\* lines that follow for as long as its running length stays within max
last_of(ls, a, max) ==
    CHOOSE e \in a..Len(ls) :
        /\ e = a \/ weight(ls, a, e) <= max
        /\ e = Len(ls) \/ weight(ls, a, e + 1) > max

\* the sends of the lines of ls from line a on, the first one with rm
RECURSIVE chunks_from(_, _, _, _)
chunks_from(ls, a, rm, max) ==
    IF a > Len(ls) THEN <<>>
    ELSE OneSend(join_nl(SubSeq(ls, a, last_of(ls, a, max))), rm)
         \o chunks_from(ls, last_of(ls, a, max) + 1, "None", max)

\* the sends of send_long_message(update, t, rm) when no send fails: a first
\* line over the limit is preceded by the send of the empty accumulator
DeliveredAt(t, rm, max) ==
    IF weight(split_nl(t), 1, 1) > max
    THEN OneSend(<<>>, rm) \o chunks_from(split_nl(t), 1, "None", max)
    ELSE chunks_from(split_nl(t), 1, rm, max)

Delivered(t, rm) == DeliveredAt(t, rm, MAX_TEXT_LENGTH)

\* the sends of the handler of the update u when it is the only one, and no
\* send fails
AloneSends(u, kb) ==
    CASE Route(u) = "start" -> Delivered(welcome_text, "keyboard")
      [] Route(u) = "send_template" -> Delivered(template, "None")
      [] Route(u) = "send_testing_types" -> Delivered(types_text, "None")
      [] Route(u) = "help" -> OneSend(MessageText_HELP, "None")
      [] Route(u) = "none" -> <<>>
      [] OTHER ->
            CASE classify(message_text(u), kb) = "ShowTemplate" -> Delivered(template, "None")
              [] classify(message_text(u), kb) = "ShowTestingTypes" ->
                    Delivered(types_text, "None")
              [] classify(message_text(u), kb) = "ShowHelp" -> OneSend(MessageText_HELP, "None")
              [] classify(message_text(u), kb) = "ShowTopic" ->
                    IF generate_raises(message_text(u), kb) THEN <<>>
                    ELSE Delivered(generate(message_text(u), kb), "None")
              [] classify(message_text(u), kb) = "UnknownCommand" ->
                    OneSend(MessageText_UNKNOWN_COMMAND, "None")
              [] OTHER -> OneSend(topic_not_found_text, "None")

\* AloneSends, for every update that carries a message and every knowledge base
AloneTable ==
    [u \in {v \in Updates : v.kind = "message"}, kb \in KBs |-> AloneSends(u, kb)]

\* the task of frame f has gone as far as it would have gone alone
AsAlone(f) ==
    (f.update.kind = "message" /\ f.error = "None")
    => /\ IsPrefix(f.sent, AloneTable[f.update, knowledge_base])
       /\ f.pc = "returned" => f.sent = AloneTable[f.update, knowledge_base]

\* C15: no step of a handler changes the knowledge base (the template, the
\* testing types and the advertised topics are constants of the model, as
\* they are of the module), and however the steps of two tasks are
\* interleaved at their awaits, the sends issued for each update are at any
\* moment the first sends, and at its return all the sends, that its handler
\* issues when it runs alone.
C15_EventIndependence ==
    [][/\ knowledge_base' = knowledge_base
       /\ AsAlone(RunningFrame)'
       /\ AsAlone(suspended)']_vars

\* a checklist of several chunks is between two of its sends while the welcome
\* of the other task has been sent in full
C15_Witness ==
    /\ suspended.pc = "slm_await_flush"
    /\ suspended.intent = "ShowTopic"
    /\ Len(suspended.sent) >= 1
    /\ handler = "start"
    /\ pc = "returned"
    /\ sent # <<>>

\* the topics the welcome and the topic-not-found messages enumerate
AdvertisedTopics == {AVAILABLE_TOPICS[k] : k \in 1..Len(AVAILABLE_TOPICS)}

\* C16: once the bot is constructed, whatever the startup load found, the
\* topics the welcome and topic-not-found messages enumerate are exactly the
\* keys of the knowledge base, and a text message that is (after lowering) an
\* advertised topic is answered with that topic's checklist.
C16_AdvertisedAreKeys ==
    /\ load_result # "raised" => AdvertisedTopics = DOMAIN knowledge_base
    /\ (/\ handler = "handle_message"
        /\ update.kind = "message"
        /\ message_text(update) \in AdvertisedTopics)
       => /\ intent = "ShowTopic"
          /\ pc = "returned" => sent = Delivered(generate(message_text(update), knowledge_base), "None")

\* every topic of kb has its categories and, for each of them, items
WellFormed(kb) ==
    \A topic \in DOMAIN kb :
        /\ {"categories", "items"} \subseteq DOMAIN kb[topic]
        /\ \A k \in 1..Len(kb[topic]["categories"]) :
              /\ kb[topic]["categories"][k] \in DOMAIN kb[topic]["items"]
              /\ kb[topic]["items"][kb[topic]["categories"][k]] # <<>>

\* C17: after a load that returned what it read, without reporting a failure,
\* every topic of the knowledge base has a categories list and a non-empty
\* item list for each category in it; so generate does not raise for a key
\* that handle_message found in the knowledge base.
C17_TopicsWellFormed ==
    /\ (handler = "handle_message" /\ intent = "ShowTopic") => error # "KeyError"
    /\ load_result = "returned" => WellFormed(knowledge_base)

\* the command that stands for a button label
CommandOfButton(label) ==
    CASE label = lower(ButtonText_CHECKLIST_REMINDER) -> <<SLASH, At("template", 8)>>
      [] label = lower(ButtonText_TESTING_TYPES) -> <<SLASH, At("types", 5)>>
      [] label = lower(ButtonText_HELP) -> <<SLASH, At("help", 4)>>

\* C18: a text message that is one of the three button labels, in any letter
\* case, is answered through handle_message with the sends of the handler of
\* the command the button stands for (/template, /types, /help), whatever the
\* knowledge base holds: at any moment the first of them, at its return all.
C18_ButtonIsCommand ==
    (/\ handler = "handle_message"
     /\ update.kind = "message"
     /\ lower(update.text) \in ButtonLabels
     /\ error = "None")
    => /\ IsPrefix(sent, AloneTable[MessageUpdate(CommandOfButton(lower(update.text))),
                                    knowledge_base])
       /\ pc = "returned"
          => sent = AloneTable[MessageUpdate(CommandOfButton(lower(update.text))),
                               knowledge_base]

\* the reminder button, pressed while the knowledge base has a topic named as
\* the button is labelled, has been answered
C18_Witness ==
    /\ handler = "handle_message"
    /\ update.text = ButtonText_CHECKLIST_REMINDER
    /\ lower(update.text) \in DOMAIN knowledge_base
    /\ pc = "returned"
    /\ Len(sent) = 1

====
